---- MODULE Spec2Model ----
(***************************************************************************)
(* Model of two Home Assistant integrations:                               *)
(*   - components/dht/sensor.py   (setup_platform, DHTSensor, DHTClient)   *)
(*   - components/tplink/__init__.py (async_setup, async_setup_entry,      *)
(*     async_unload_entry)                                                 *)
(* The two integrations are independent; Spec is the DHT machine and       *)
(* SpecTP the TP-Link machine.                                             *)
(*                                                                         *)
(* Readings and offsets are Python floats.  They are modelled as integer   *)
(* multiples of 1/Scale degree (or percent) with Scale = 8, which are      *)
(* exact in binary floating point, so that raw + offset is exact and       *)
(* round(x, 1) is the correctly rounded, ties-to-even tenth.  Displayed    *)
(* values are integers counting tenths.  Time is in seconds.               *)
(***************************************************************************)
EXTENDS Integers, Sequences, FiniteSets, TLC

VARIABLES
    \* ---- DHT ----
    now,          \* utcnow(), seconds
    setup,        \* how setup_platform ended: its inputs and its result
    log,          \* set of messages given to _LOGGER (error/debug/exception)
    added,        \* <<>> until add_entities is called, then <<number of entities>>
    entities,     \* the DHTSensor objects given to add_entities
    data,         \* DHTClient.data: dict metric -> reading
    throttle,     \* Throttle's last-run time throttle[1]: <<>> (None) or <<t>>
    pc,           \* position inside the running DHTSensor.update call
    cur,          \* index of the entity whose update is running (0: none)
    humidity,     \* local of DHTClient.update: <<>> (unbound/None) or <<v>>
    temperature,  \* local of DHTClient.update
    pending,      \* exception in flight: <<>> or <<kind>>
    handles,      \* history: one record per sensor handle instantiated
    call,         \* history: the latest DHTSensor.update call
    read_at,      \* history: per metric, when the reading in data was taken
    shown_at,     \* history: per entity, when the reading it displays was taken
    \* ---- TP-Link ----
    hass_data,    \* hass.data restricted to DOMAIN: <<>> (no key) or <<dict>>
    tasks,        \* the coroutines in flight: per task, the call, where it
                  \* awaits, and its locals
    forwarded,    \* platforms handed to async_forward_entry_setup by the
                  \* setup call that ended last
    tp            \* history: the TP-Link call that ended last

dht_vars == <<now, setup, log, added, entities, data, throttle, pc, cur,
              humidity, temperature, pending, handles, call, read_at, shown_at>>
tp_vars == <<hass_data, tasks, forwarded, tp>>
vars == <<now, setup, log, added, entities, data, throttle, pc, cur,
          humidity, temperature, pending, handles, call, read_at, shown_at,
          hass_data, tasks, forwarded, tp>>

----------------------------------------------------------------------------
(* Bounds *)

MaxTime == 60
TickStep == 15
Scale == 8

----------------------------------------------------------------------------
(* Constants of dht/sensor.py *)

MIN_TIME_BETWEEN_UPDATES == 30
SENSOR_TEMPERATURE == "temperature"
SENSOR_HUMIDITY == "humidity"
PERCENTAGE == "%"
TEMP_CELSIUS == "C"
TEMP_FAHRENHEIT == "F"
TemperatureLow == -20
TemperatureHigh == 80
HumidityLow == 0
HumidityHigh == 100
OffsetMin == -100
OffsetMax == 100

None == <<>>
Some(v) == <<v>>
EmptyDict == [k \in {} |-> 0]

\* keys of SENSOR_TYPES
SENSOR_TYPES == {SENSOR_TEMPERATURE, SENSOR_HUMIDITY}

\* SENSOR_TYPES[variable][1] after line 71 stored the host's temperature unit
SensorUnit(variable, temperature_unit) ==
    IF variable = SENSOR_TEMPERATURE THEN temperature_unit ELSE PERCENTAGE

\* available_sensors.get(kind): the sensor class, None for an unknown kind
available_sensors(kind) ==
    IF kind \in {"AM2302", "DHT22"} THEN Some("DHT22")
    ELSE IF kind = "DHT11" THEN Some("DHT11")
    ELSE None

----------------------------------------------------------------------------
(* Inputs *)

SensorKinds == {"AM2302", "DHT11", "DHT22", "DHT33"}
TemperatureUnits == {TEMP_CELSIUS, TEMP_FAHRENHEIT}
\* offsets in 1/Scale units, within the range the schema accepts: 0.375, -100
TemperatureOffsets == {3, OffsetMin * Scale}
\* -0.25, 100
HumidityOffsets == {-2, OffsetMax * Scale}
\* monitored conditions: lists over the keys of SENSOR_TYPES
ConditionLists ==
    {<<>>, <<SENSOR_TEMPERATURE>>, <<SENSOR_HUMIDITY>>,
     <<SENSOR_TEMPERATURE, SENSOR_HUMIDITY>>}

\* what dht.temperature / dht.humidity can do: give a float, give None,
\* raise RuntimeError, raise another Exception
Value(v) == [kind |-> "value", v |-> v]
NoReading == [kind |-> "None", v |-> 0]
Raise(k) == [kind |-> k, v |-> 0]
Unread == [kind |-> "unread", v |-> 0]
\* 0.0, -20.125, 21.25, 80.0 degrees Celsius
TemperatureReadings == {0, -161, 170, 640}
\* 0.0, 100.0, 100.125 percent
HumidityReadings == {0, 800, 801}
ReadFailures == {NoReading, Raise("RuntimeError"), Raise("Exception")}
TemperatureOutcomes == {Value(v) : v \in TemperatureReadings} \cup ReadFailures
HumidityOutcomes == {Value(v) : v \in HumidityReadings} \cup ReadFailures

----------------------------------------------------------------------------
(* Pure functions *)

\* n/d rounded to the nearest integer, ties to even (d > 0)
RoundHalfEven(n, d) ==
    LET q == n \div d
        r == n % d
    IN  IF 2 * r < d THEN q
        ELSE IF 2 * r > d THEN q + 1
        ELSE IF q % 2 = 0 THEN q ELSE q + 1

\* round(x, 1) of x = v/Scale, as a number of tenths
round1(v) == RoundHalfEven(10 * v, Scale)

\* round(celsius_to_fahrenheit(c), 1) of c = v/Scale, as a number of tenths:
\* c * 1.8 + 32.0
celsius_to_fahrenheit_round1(v) == RoundHalfEven(18 * v + 320 * Scale, Scale)

\* truthiness of a reading held in a local: None and 0.0 are falsy
Truthy(x) == x # None /\ x[1] # 0

\* Throttle(min_time): the wrapped method runs when it never ran, or when
\* more than min_time passed since it last ran
Throttle_runs(last, t, min_time) ==
    last = None \/ t - last[1] > min_time

DHTClient_update_undecorated(last, t) == TRUE

DHTClient_update_slow(last, t) ==
    Throttle_runs(last, t, 2 * MIN_TIME_BETWEEN_UPDATES)

\* line 181: DHTClient.update is wrapped in Throttle(MIN_TIME_BETWEEN_UPDATES);
\* whether a call of the wrapper runs the method
DHTClient_update_runs(last, t) ==
    Throttle_runs(last, t, MIN_TIME_BETWEEN_UPDATES)

TemperatureInRange_inclusive(v) ==
    TemperatureLow * Scale <= v /\ v <= TemperatureHigh * Scale

\* line 160: -20 <= temperature < 80
TemperatureInRange(v) ==
    TemperatureLow * Scale <= v /\ v < TemperatureHigh * Scale

\* line 167: 0 <= humidity <= 100
HumidityInRange(v) ==
    HumidityLow * Scale <= v /\ v <= HumidityHigh * Scale

\* whether DHTSensor.update assigns _state (lines 161 and 168 are reached)
DHTSensor_assigns(ent, d) ==
    IF ent.type = SENSOR_TEMPERATURE /\ SENSOR_TEMPERATURE \in DOMAIN d
    THEN TemperatureInRange(d[SENSOR_TEMPERATURE])
    ELSE /\ ent.type = SENSOR_HUMIDITY
         /\ SENSOR_HUMIDITY \in DOMAIN d
         /\ HumidityInRange(d[SENSOR_HUMIDITY])

\* DHTSensor.update lines 149-168: the entity's _state after looking at data
DHTSensor_state(ent, d) ==
    IF ent.type = SENSOR_TEMPERATURE /\ SENSOR_TEMPERATURE \in DOMAIN d
    THEN IF TemperatureInRange(d[SENSOR_TEMPERATURE])
         THEN IF ent.temp_unit = TEMP_FAHRENHEIT
              THEN Some(celsius_to_fahrenheit_round1(d[SENSOR_TEMPERATURE]))
              ELSE Some(round1(d[SENSOR_TEMPERATURE] + ent.temperature_offset))
         ELSE ent.state
    ELSE IF ent.type = SENSOR_HUMIDITY /\ SENSOR_HUMIDITY \in DOMAIN d
    THEN IF HumidityInRange(d[SENSOR_HUMIDITY])
         THEN Some(round1(d[SENSOR_HUMIDITY] + ent.humidity_offset))
         ELSE ent.state
    ELSE ent.state

\* DHTSensor.__init__
DHTSensor_init(sensor_type, temp_unit, temperature_offset, humidity_offset) ==
    [type |-> sensor_type,
     temp_unit |-> temp_unit,
     temperature_offset |-> temperature_offset,
     humidity_offset |-> humidity_offset,
     state |-> None]

Caught_RuntimeError_only(kind) == kind = "RuntimeError"

\* which exception kinds the except clauses of DHTClient.update catch
Caught(kind) == kind \in {"RuntimeError", "Exception"}

dht_exit_missing(hs) == hs

\* line 197: dht.exit() on the handle instantiated by this call
dht_exit(hs) == [hs EXCEPT ![Len(hs)].exits = @ + 1]

DHTClient_store_not_None(d, t, h) ==
    LET d1 == IF t # None THEN (SENSOR_TEMPERATURE :> t[1]) @@ d ELSE d
    IN  IF h # None THEN (SENSOR_HUMIDITY :> h[1]) @@ d1 ELSE d1

\* DHTClient.update lines 188-191
DHTClient_store(d, t, h) ==
    LET d1 == IF Truthy(t) THEN (SENSOR_TEMPERATURE :> t[1]) @@ d ELSE d
    IN  IF Truthy(h) THEN (SENSOR_HUMIDITY :> h[1]) @@ d1 ELSE d1

----------------------------------------------------------------------------
(* DHT: initial state and actions *)

NoCall ==
    [entity |-> 0, before |-> None, data_before |-> EmptyDict, polled |-> FALSE,
     h |-> Unread, t |-> Unread, result |-> "none", at |-> 0]

NoSetup ==
    [result |-> "pending", sensor |-> None, pin_ok |-> TRUE, conditions |-> <<>>]

DHTInit ==
    /\ now = 0
    /\ setup = NoSetup
    /\ log = {}
    /\ added = None
    /\ entities = <<>>
    /\ data = EmptyDict
    /\ throttle = None
    /\ pc = "idle"
    /\ cur = 0
    /\ humidity = None
    /\ temperature = None
    /\ pending = None
    /\ handles = <<>>
    /\ call = NoCall
    /\ read_at = EmptyDict
    /\ shown_at = <<>>

setup_platform_outcome_client_first(sensor, pin_ok) ==
    IF ~pin_ok THEN "AttributeError"
    ELSE IF sensor = None THEN "False"
    ELSE "None"

\* how setup_platform ends: "False" (lines 83-85), "AttributeError" raised by
\* DHTClient.__init__ (line 87 -> line 177), or falling off the end ("None")
setup_platform_outcome(sensor, pin_ok) ==
    IF sensor = None THEN "False"
    ELSE IF ~pin_ok THEN "AttributeError"
    ELSE "None"

\* setup_platform(hass, config, add_entities)
setup_platform(kind, pin_ok, conditions, temperature_unit, toff, hoff) ==
    /\ setup.result = "pending"
    /\ IF setup_platform_outcome(available_sensors(kind), pin_ok) = "False"
       THEN \* lines 83-85
            /\ log' = log \cup {"error: DHT sensor type is not supported"}
            /\ setup' = [result |-> "False", sensor |-> available_sensors(kind), pin_ok |-> pin_ok,
                         conditions |-> conditions]
            /\ UNCHANGED <<added, entities, shown_at>>
       ELSE IF setup_platform_outcome(available_sensors(kind), pin_ok) = "AttributeError"
       THEN \* line 87 -> line 177: getattr(board, pin) raises AttributeError
            /\ setup' = [result |-> "AttributeError", sensor |-> available_sensors(kind),
                         pin_ok |-> pin_ok, conditions |-> conditions]
            /\ UNCHANGED <<log, added, entities, shown_at>>
       ELSE \* lines 87-105
            /\ entities' = [i \in 1..Len(conditions) |->
                              DHTSensor_init(conditions[i],
                                             SensorUnit(conditions[i], temperature_unit),
                                             toff, hoff)]
            /\ shown_at' = [i \in 1..Len(conditions) |-> None]
            /\ added' = Some(Len(conditions))
            /\ setup' = [result |-> "None", sensor |-> available_sensors(kind), pin_ok |-> pin_ok,
                         conditions |-> conditions]
            /\ UNCHANGED log
    /\ UNCHANGED <<now, data, throttle, pc, cur, humidity, temperature, pending,
                   handles, call, read_at>>
    /\ UNCHANGED tp_vars

\* the clock advances between calls (device I/O is synchronous)
Tick ==
    /\ pc = "idle"
    /\ now + TickStep <= MaxTime
    /\ now' = now + TickStep
    /\ UNCHANGED <<setup, log, added, entities, data, throttle, pc, cur,
                   humidity, temperature, pending, handles, call, read_at, shown_at>>
    /\ UNCHANGED tp_vars

\* DHTSensor.update line 148: the host polls entity i; the Throttle wrapper
\* decides whether DHTClient.update runs
DHTSensor_update(i) ==
    /\ pc = "idle"
    /\ added # None
    /\ i \in 1..Len(entities)
    /\ cur' = i
    /\ call' = [entity |-> i, before |-> entities[i].state, data_before |-> data,
                polled |-> DHTClient_update_runs(throttle, now),
                h |-> Unread, t |-> Unread, result |-> "running", at |-> now]
    /\ pc' = IF DHTClient_update_runs(throttle, now) THEN "open" ELSE "extract"
    /\ UNCHANGED <<now, setup, log, added, entities, data, throttle, humidity,
                   temperature, pending, handles, read_at, shown_at>>
    /\ UNCHANGED tp_vars

\* DHTClient.update line 184: dht = self.sensor(self.pin)
DHTClient_open ==
    /\ pc = "open"
    /\ handles' = Append(handles, [opened_at |-> now, exits |-> 0])
    /\ pc' = "humidity"
    /\ UNCHANGED <<now, setup, log, added, entities, data, throttle, cur,
                   humidity, temperature, pending, call, read_at, shown_at>>
    /\ UNCHANGED tp_vars

\* DHTClient.update line 186: humidity = dht.humidity
DHTClient_read_humidity(o) ==
    /\ pc = "humidity"
    /\ call' = [call EXCEPT !.h = o]
    /\ IF o.kind \in {"value", "None"}
       THEN /\ humidity' = IF o.kind = "value" THEN Some(o.v) ELSE None
            /\ pc' = "temperature"
            /\ UNCHANGED pending
       ELSE /\ pending' = Some(o.kind)
            /\ pc' = "except"
            /\ UNCHANGED humidity
    /\ UNCHANGED <<now, setup, log, added, entities, data, throttle, cur,
                   temperature, handles, read_at, shown_at>>
    /\ UNCHANGED tp_vars

\* DHTClient.update line 187: temperature = dht.temperature
DHTClient_read_temperature(o) ==
    /\ pc = "temperature"
    /\ call' = [call EXCEPT !.t = o]
    /\ IF o.kind \in {"value", "None"}
       THEN /\ temperature' = IF o.kind = "value" THEN Some(o.v) ELSE None
            /\ pc' = "store"
            /\ UNCHANGED pending
       ELSE /\ pending' = Some(o.kind)
            /\ pc' = "except"
            /\ UNCHANGED temperature
    /\ UNCHANGED <<now, setup, log, added, entities, data, throttle, cur,
                   humidity, handles, read_at, shown_at>>
    /\ UNCHANGED tp_vars

\* DHTClient.update lines 188-191
DHTClient_update_store ==
    /\ pc = "store"
    /\ data' = DHTClient_store(data, temperature, humidity)
    /\ read_at' = LET r1 == IF Truthy(temperature)
                            THEN (SENSOR_TEMPERATURE :> now) @@ read_at
                            ELSE read_at
                  IN  IF Truthy(humidity)
                      THEN (SENSOR_HUMIDITY :> now) @@ r1
                      ELSE r1
    /\ pc' = "finally"
    /\ UNCHANGED <<now, setup, log, added, entities, throttle, cur, humidity,
                   temperature, pending, handles, call, shown_at>>
    /\ UNCHANGED tp_vars

\* DHTClient.update lines 192-195: the except clauses
DHTClient_update_except ==
    /\ pc = "except"
    /\ IF Caught(pending[1])
       THEN /\ pending' = None
            /\ log' = log \cup
                 {IF pending[1] = "RuntimeError"
                  THEN "debug: Unexpected value from DHT sensor"
                  ELSE "exception: Error updating DHT sensor"}
       ELSE UNCHANGED <<pending, log>>
    /\ pc' = "finally"
    /\ UNCHANGED <<now, setup, added, entities, data, throttle, cur, humidity,
                   temperature, handles, call, read_at, shown_at>>
    /\ UNCHANGED tp_vars

\* DHTClient.update lines 196-197: finally: dht.exit(); then the Throttle
\* wrapper stores the time of the run when the method returned
DHTClient_update_finally ==
    /\ pc = "finally"
    /\ handles' = dht_exit(handles)
    /\ IF pending = None
       THEN /\ throttle' = Some(now)
            /\ pc' = "extract"
            /\ UNCHANGED <<call, cur>>
       ELSE \* the exception leaves DHTClient.update, Throttle and
            \* DHTSensor.update
            /\ call' = [call EXCEPT !.result = "raised"]
            /\ pc' = "idle"
            /\ cur' = 0
            /\ UNCHANGED throttle
    /\ pending' = None
    /\ humidity' = None
    /\ temperature' = None
    /\ UNCHANGED <<now, setup, log, added, entities, data, read_at, shown_at>>
    /\ UNCHANGED tp_vars

\* DHTSensor.update lines 155-159 and 166: the _LOGGER.debug call made when
\* the entity's metric is in data, in range or not
DHTSensor_debug(ent, d) ==
    IF ent.type = SENSOR_TEMPERATURE /\ SENSOR_TEMPERATURE \in DOMAIN d
    THEN {"debug: Temperature %.1f \\u00b0C + offset %.1f"}
    ELSE IF ent.type = SENSOR_HUMIDITY /\ SENSOR_HUMIDITY \in DOMAIN d
    THEN {"debug: Humidity %.1f%% + offset %.1f"}
    ELSE {}

\* DHTSensor.update lines 149-168
DHTSensor_update_extract ==
    /\ pc = "extract"
    /\ log' = log \cup DHTSensor_debug(entities[cur], data)
    /\ entities' = [entities EXCEPT ![cur].state = DHTSensor_state(entities[cur], data)]
    /\ shown_at' = IF DHTSensor_assigns(entities[cur], data)
                   THEN [shown_at EXCEPT ![cur] = Some(read_at[entities[cur].type])]
                   ELSE shown_at
    /\ call' = [call EXCEPT !.result = "returned"]
    /\ pc' = "idle"
    /\ cur' = 0
    /\ UNCHANGED <<now, setup, added, data, throttle, humidity,
                   temperature, pending, handles, read_at>>
    /\ UNCHANGED tp_vars

----------------------------------------------------------------------------
(* TP-Link: tplink/__init__.py *)
(* async_setup_entry and async_unload_entry are coroutines: each runs      *)
(* without interruption up to an await (lines 62, 87, 89), where the       *)
(* event loop may run steps of other calls.  A list stored in the domain   *)
(* dict is a Python object shared with the local variable of the call that *)
(* made it; it is modelled as its items tagged with the task that owns it. *)

ATTR_CONFIG == "config"
CONF_DISCOVERY == "discovery"
CONF_LIGHT == "light"
CONF_SWITCH == "switch"
CONF_RETRY_DELAY == "retry_delay"
CONF_RETRY_MAX_ATTEMPTS == "retry_max_attempts"
ADD_ATTEMPT == "add_attempt"

\* the calls that can be in flight together
Tasks == {"a", "b"}

\* config_entry.data: None, or the entry's data
ConfigData ==
    {None} \cup
    {Some([discovery |-> d, retry_delay |-> 5, retry_max_attempts |-> 300]) :
        d \in BOOLEAN}
\* what get_static_devices can return
StaticDevices ==
    [lights : {<<>>, <<"bulb1">>}, switches : {<<>>, <<"plug1">>}]
\* what async_discover_devices can return
DiscoveredDevices ==
    [lights : {<<>>, <<"bulb2">>}, switches : {<<>>, <<"plug2">>}]
\* SmartDevices(): no lights, no switches
NoDevices == [lights |-> <<>>, switches |-> <<>>]

\* a list object made by the call running as task t
ListOf(t, items) == [owner |-> t, items |-> items]

\* d[k] = v
SetItem(d, k, v) == (k :> v) @@ d

\* a task that runs no call
IdleTask ==
    [op |-> "idle", pc |-> "idle", config_data |-> None,
     static_devices |-> NoDevices, lights |-> <<>>, switches |-> <<>>,
     had_lights |-> FALSE, remove_lights |-> FALSE, asked |-> {}]

TPIdle ==
    /\ hass_data = None
    /\ tasks = [t \in Tasks |-> IdleTask]
    /\ forwarded = {}
    /\ tp = [op |-> "none"]

setup_entry_static_keeping_lists(d, t, config_data, static_devices) ==
    LET d1 == SetItem(SetItem(d,
                  CONF_LIGHT, ListOf(t, IF CONF_LIGHT \in DOMAIN d
                                        THEN d[CONF_LIGHT].items ELSE <<>>)),
                  CONF_SWITCH, ListOf(t, IF CONF_SWITCH \in DOMAIN d
                                         THEN d[CONF_SWITCH].items ELSE <<>>))
        d2 == IF config_data # None
              THEN SetItem(SetItem(SetItem(SetItem(d1,
                       CONF_LIGHT, ListOf(t, d1[CONF_LIGHT].items \o static_devices.lights)),
                       CONF_SWITCH, ListOf(t, d1[CONF_SWITCH].items \o static_devices.switches)),
                       CONF_RETRY_DELAY, config_data[1].retry_delay),
                       CONF_RETRY_MAX_ATTEMPTS, config_data[1].retry_max_attempts)
              ELSE d1
    IN  SetItem(d2, ADD_ATTEMPT, 0)

\* async_setup_entry lines 43-58: the domain dict when the call reaches
\* line 61; the two lists are new objects of the call
setup_entry_static(d, t, config_data, static_devices) ==
    LET d1 == SetItem(SetItem(d, CONF_LIGHT, ListOf(t, <<>>)),
                      CONF_SWITCH, ListOf(t, <<>>))
        d2 == IF config_data # None
              THEN SetItem(SetItem(SetItem(SetItem(d1,
                       CONF_LIGHT, ListOf(t, d1[CONF_LIGHT].items \o static_devices.lights)),
                       CONF_SWITCH, ListOf(t, d1[CONF_SWITCH].items \o static_devices.switches)),
                       CONF_RETRY_DELAY, config_data[1].retry_delay),
                       CONF_RETRY_MAX_ATTEMPTS, config_data[1].retry_max_attempts)
              ELSE d1
    IN  SetItem(d2, ADD_ATTEMPT, 0)

\* async_setup_entry line 61: whether discovery runs
setup_entry_discovers(config_data) ==
    config_data = None \/ config_data[1].discovery

\* whether d[k] still is the list object of task t
Attached(d, k, t) == k \in DOMAIN d /\ d[k].owner = t

\* async_setup_entry lines 64-65 seen from the domain dict: extending the
\* call's lists shows in the dict where the dict still holds them
setup_entry_discovered(d, t, lights, switches) ==
    LET d1 == IF Attached(d, CONF_LIGHT, t)
              THEN SetItem(d, CONF_LIGHT, ListOf(t, lights)) ELSE d
    IN  IF Attached(d1, CONF_SWITCH, t)
        THEN SetItem(d1, CONF_SWITCH, ListOf(t, switches)) ELSE d1

\* async_setup_entry lines 67-77: the platforms handed to forward_setup
setup_entry_forwards(lights, switches) ==
    (IF lights # <<>> THEN {"light"} ELSE {})
    \cup (IF switches # <<>> THEN {"switch"} ELSE {})

\* async_unload_entry line 91: remove_lights or remove_switches
unload_entry_result(remove_lights, remove_switches) ==
    remove_lights \/ remove_switches

unload_entry_data_always_cleared(d, result) == EmptyDict

\* async_unload_entry lines 91-97: the domain dict after the call
unload_entry_data(d, result) == IF result THEN EmptyDict ELSE d

\* a call of task t ends by raising KeyError
RaiseKeyError(t, op, key) ==
    /\ tp' = [op |-> op, task |-> t, result |-> "KeyError", key |-> key]
    /\ tasks' = [tasks EXCEPT ![t] = IdleTask]
    /\ UNCHANGED <<hass_data, forwarded>>

\* async_setup(hass, config)
async_setup(conf) ==
    /\ hass_data = None
    /\ hass_data' = Some(SetItem(EmptyDict, ATTR_CONFIG, conf))
    /\ tp' = [op |-> "async_setup", task |-> "", result |-> "True",
              flow |-> (conf # None)]
    /\ UNCHANGED <<tasks, forwarded>>
    /\ UNCHANGED dht_vars

\* async_setup_entry lines 67-79: forward the non-empty lists, return True
setup_entry_return(t, d, config_data, static_devices, discovered_devices, lights, switches, had_lights) ==
    /\ hass_data' = Some(d)
    /\ forwarded' = setup_entry_forwards(lights, switches)
    /\ tasks' = [tasks EXCEPT ![t] = IdleTask]
    /\ tp' = [op |-> "async_setup_entry", task |-> t, result |-> "True",
              config_data |-> config_data,
              static_devices |-> static_devices,
              discovered_devices |-> discovered_devices,
              lights |-> lights, switches |-> switches,
              had_lights |-> had_lights,
              forwarded |-> setup_entry_forwards(lights, switches)]

\* async_setup_entry(hass, config_entry), lines 40-62: up to the await of
\* async_discover_devices, or to the end when discovery does not run
async_setup_entry(t, config_data, static_devices) ==
    /\ tasks[t].op = "idle"
    /\ IF hass_data = None
       THEN RaiseKeyError(t, "async_setup_entry", "tplink")
       ELSE LET d == setup_entry_static(hass_data[1], t, config_data, static_devices)
                had_lights == /\ CONF_LIGHT \in DOMAIN hass_data[1]
                              /\ hass_data[1][CONF_LIGHT].items # <<>>
            IN  IF setup_entry_discovers(config_data)
                THEN /\ hass_data' = Some(d)
                     /\ tasks' = [tasks EXCEPT ![t] =
                            [IdleTask EXCEPT !.op = "async_setup_entry",
                                             !.pc = "await_discover",
                                             !.config_data = config_data,
                                             !.static_devices = static_devices,
                                             !.lights = d[CONF_LIGHT].items,
                                             !.switches = d[CONF_SWITCH].items,
                                             !.had_lights = had_lights]]
                     /\ UNCHANGED <<forwarded, tp>>
                ELSE setup_entry_return(t, d, config_data, static_devices,
                                        NoDevices, d[CONF_LIGHT].items,
                                        d[CONF_SWITCH].items, had_lights)
    /\ UNCHANGED dht_vars

\* async_setup_entry lines 62-79: async_discover_devices gave its result
async_setup_entry_discovered(t, discovered_devices) ==
    /\ tasks[t].op = "async_setup_entry"
    /\ tasks[t].pc = "await_discover"
    /\ LET lights == tasks[t].lights \o discovered_devices.lights
           switches == tasks[t].switches \o discovered_devices.switches
       IN  setup_entry_return(t,
               setup_entry_discovered(hass_data[1], t, lights, switches),
               tasks[t].config_data, tasks[t].static_devices,
               discovered_devices, lights, switches, tasks[t].had_lights)
    /\ UNCHANGED dht_vars

\* async_unload_entry lines 91-97
unload_entry_return(t, remove_lights, remove_switches, asked) ==
    /\ hass_data' = Some(unload_entry_data(hass_data[1],
                        unload_entry_result(remove_lights, remove_switches)))
    /\ tp' = [op |-> "async_unload_entry", task |-> t,
              result |-> IF unload_entry_result(remove_lights, remove_switches)
                         THEN "True" ELSE "False",
              remove_lights |-> remove_lights,
              remove_switches |-> remove_switches,
              asked |-> asked,
              at_return |-> hass_data[1],
              after |-> unload_entry_data(hass_data[1],
                           unload_entry_result(remove_lights, remove_switches))]
    /\ tasks' = [tasks EXCEPT ![t] = IdleTask]
    /\ UNCHANGED forwarded

\* async_unload_entry lines 88-89: look at the switch list, up to the await
\* of forward_unload(entry, "switch"), or to the end when the list is empty
unload_entry_switches(t, remove_lights, asked) ==
    IF CONF_SWITCH \notin DOMAIN hass_data[1]
    THEN RaiseKeyError(t, "async_unload_entry", CONF_SWITCH)
    ELSE IF hass_data[1][CONF_SWITCH].items # <<>>
    THEN /\ tasks' = [tasks EXCEPT ![t] =
                [IdleTask EXCEPT !.op = "async_unload_entry",
                                 !.pc = "await_switch",
                                 !.remove_lights = remove_lights,
                                 !.asked = asked \cup {"switch"}]]
         /\ UNCHANGED <<hass_data, forwarded, tp>>
    ELSE unload_entry_return(t, remove_lights, FALSE, asked)

\* async_unload_entry(hass, entry), lines 84-87: up to the await of
\* forward_unload(entry, "light"), or further when the light list is empty
async_unload_entry(t) ==
    /\ tasks[t].op = "idle"
    /\ IF hass_data = None
       THEN RaiseKeyError(t, "async_unload_entry", "tplink")
       ELSE IF CONF_LIGHT \notin DOMAIN hass_data[1]
       THEN RaiseKeyError(t, "async_unload_entry", CONF_LIGHT)
       ELSE IF hass_data[1][CONF_LIGHT].items # <<>>
       THEN /\ tasks' = [tasks EXCEPT ![t] =
                   [IdleTask EXCEPT !.op = "async_unload_entry",
                                    !.pc = "await_light",
                                    !.asked = {"light"}]]
            /\ UNCHANGED <<hass_data, forwarded, tp>>
       ELSE unload_entry_switches(t, FALSE, {})
    /\ UNCHANGED dht_vars

\* async_unload_entry lines 87-89: forward_unload(entry, "light") gave its
\* result
async_unload_entry_light(t, light_ok) ==
    /\ tasks[t].op = "async_unload_entry"
    /\ tasks[t].pc = "await_light"
    /\ unload_entry_switches(t, light_ok, tasks[t].asked)
    /\ UNCHANGED dht_vars

\* async_unload_entry lines 89-97: forward_unload(entry, "switch") gave its
\* result
async_unload_entry_switch(t, switch_ok) ==
    /\ tasks[t].op = "async_unload_entry"
    /\ tasks[t].pc = "await_switch"
    /\ unload_entry_return(t, tasks[t].remove_lights, switch_ok, tasks[t].asked)
    /\ UNCHANGED dht_vars

Init == DHTInit /\ TPIdle

TPNext ==
    \/ \E conf \in {None, Some("yaml")} : async_setup(conf)
    \/ \E t \in Tasks, config_data \in ConfigData :
          \E static_devices \in
                (IF config_data = None THEN {NoDevices} ELSE StaticDevices) :
             async_setup_entry(t, config_data, static_devices)
    \/ \E t \in Tasks, discovered_devices \in DiscoveredDevices :
          async_setup_entry_discovered(t, discovered_devices)
    \/ \E t \in Tasks : async_unload_entry(t)
    \/ \E t \in Tasks, light_ok \in BOOLEAN : async_unload_entry_light(t, light_ok)
    \/ \E t \in Tasks, switch_ok \in BOOLEAN : async_unload_entry_switch(t, switch_ok)

SpecTP == Init /\ [][TPNext]_vars


Next ==
    \/ \E kind \in SensorKinds, pin_ok \in BOOLEAN, conditions \in ConditionLists,
          temperature_unit \in TemperatureUnits,
          toff \in TemperatureOffsets, hoff \in HumidityOffsets :
          setup_platform(kind, pin_ok, conditions, temperature_unit, toff, hoff)
    \/ Tick
    \/ \E i \in DOMAIN entities : DHTSensor_update(i)
    \/ DHTClient_open
    \/ \E o \in HumidityOutcomes : DHTClient_read_humidity(o)
    \/ \E o \in TemperatureOutcomes : DHTClient_read_temperature(o)
    \/ DHTClient_update_store
    \/ DHTClient_update_except
    \/ DHTClient_update_finally
    \/ DHTSensor_update_extract

Spec == Init /\ [][Next]_vars

----------------------------------------------------------------------------
(* Properties.  The predicates below restate ranges and rounding on their  *)
(* own, without the operators of the model.                                *)

Abs(x) == IF x < 0 THEN -x ELSE x

\* s tenths is n/Scale rounded to one decimal, ties to the even tenth
NearestTenth(s, n) ==
    /\ 2 * Abs(Scale * s - n) <= Scale
    /\ 2 * Abs(Scale * s - n) = Scale => s % 2 = 0

\* s (tenths) is round(v + offset, 1) for v, offset in 1/Scale units
IsRounded(s, v) == NearestTenth(s, 10 * v)

\* s (tenths) is round(c * 1.8 + 32, 1) for c = v/Scale
IsRoundedFahrenheit(s, v) == NearestTenth(s, 18 * v + 320 * Scale)

TemperatureInside(v) == -20 * Scale <= v /\ v < 80 * Scale
HumidityInside(v) == 0 <= v /\ v <= 100 * Scale

\* the latest DHTSensor.update call has ended (returned or raised)
CallEnded == call.result \in {"returned", "raised"}
CallReturned == call.result = "returned"
ReadRaised ==
    \/ call.h.kind \in {"RuntimeError", "Exception"}
    \/ call.t.kind \in {"RuntimeError", "Exception"}

\* the state of entity ent is the displayed form of its metric's entry in d
Displays(ent, d) ==
    /\ ent.type \in DOMAIN d
    /\ ent.state # None
    /\ IF ent.type = SENSOR_HUMIDITY
       THEN IsRounded(ent.state[1], d[SENSOR_HUMIDITY] + ent.humidity_offset)
       ELSE IF ent.temp_unit = TEMP_FAHRENHEIT
       THEN IsRoundedFahrenheit(ent.state[1], d[SENSOR_TEMPERATURE])
       ELSE IsRounded(ent.state[1], d[SENSOR_TEMPERATURE] + ent.temperature_offset)

\* C1: any two sensor handles instantiated for the client are at least
\* MIN_TIME_BETWEEN_UPDATES apart, whichever entities issued the updates.
C1_Throttle ==
    \A i, j \in DOMAIN handles :
        i < j => handles[j].opened_at - handles[i].opened_at >= MIN_TIME_BETWEEN_UPDATES

\* two real reads happened, and the latest update, by the second entity, was
\* throttled
C1_Witness ==
    /\ Len(handles) >= 2
    /\ CallReturned
    /\ ~call.polled
    /\ call.entity = 2

\* a step of an async_unload_entry call that leaves it waiting for a
\* forward_unload does not write the domain state
C2_WaitingWritesNothing ==
    \A t \in Tasks :
        (tasks'[t].op = "async_unload_entry" /\ tasks'[t] # tasks[t])
        => hass_data' = hass_data

\* when async_unload_entry has returned: True only if a forward_unload it
\* made for a platform with devices reported success; it cleared the domain
\* state if it returned True and left it as it was if it returned False
C2_UnloadReturned ==
    (tp.op = "async_unload_entry" /\ tp.result \in {"True", "False"}) =>
        /\ tp.result = "True" =>
              \/ "light" \in tp.asked /\ tp.remove_lights
              \/ "switch" \in tp.asked /\ tp.remove_switches
        /\ tp.result = "True" => DOMAIN tp.after = {}
        /\ tp.result = "False" => tp.after = tp.at_return
        /\ tp.at_return # EmptyDict => (tp.result = "True" <=> DOMAIN tp.after = {})

\* C2: async_unload_entry returns True only when at least one platform
\* unload (light, switch) reports success, and the call clears the domain
\* state exactly then: it empties hass.data[DOMAIN] if and only if it returns
\* True, and a call that returns False never writes the domain state.
C2_Unload ==
    [][C2_WaitingWritesNothing]_vars /\ []C2_UnloadReturned

\* unload succeeded through the switch platform although the light platform
\* had devices and failed to unload
C2_Witness ==
    /\ tp.op = "async_unload_entry"
    /\ tp.result = "True"
    /\ tp.asked = {"light", "switch"}
    /\ ~tp.remove_lights
    /\ tp.remove_switches
    /\ tp.at_return # EmptyDict
    /\ hass_data = Some(EmptyDict)

\* C3: after a DHTSensor.update whose poll read both metrics without an
\* exception, an in-range reading of the entity's own metric is displayed as
\* round(raw + offset, 1): a Celsius temperature entity that read a
\* temperature in [-20, 80) shows round(raw + temperature_offset, 1), and a
\* humidity entity that read a humidity in [0, 100] shows
\* round(raw + humidity_offset, 1), raw being the value the device returned.
C3_RawDisplayed ==
    ( /\ CallReturned
      /\ call.polled
      /\ call.h.kind \in {"value", "None"}
      /\ call.t.kind \in {"value", "None"} )
    => LET ent == entities[call.entity] IN
       /\ ( /\ ent.type = SENSOR_TEMPERATURE
            /\ ent.temp_unit = TEMP_CELSIUS
            /\ call.t.kind = "value"
            /\ TemperatureInside(call.t.v) )
          => /\ ent.state # None
             /\ IsRounded(ent.state[1], call.t.v + ent.temperature_offset)
       /\ ( /\ ent.type = SENSOR_HUMIDITY
            /\ call.h.kind = "value"
            /\ HumidityInside(call.h.v) )
          => /\ ent.state # None
             /\ IsRounded(ent.state[1], call.h.v + ent.humidity_offset)

\* C4: when DHTSensor.update sees a reading of its metric outside the range,
\* it returns without error and the entity's state is what it was before.
C4_OutOfRange ==
    CallEnded =>
        LET ent == entities[call.entity] IN
        ( \/ /\ ent.type = SENSOR_TEMPERATURE
             /\ SENSOR_TEMPERATURE \in DOMAIN data
             /\ ~TemperatureInside(data[SENSOR_TEMPERATURE])
          \/ /\ ent.type = SENSOR_HUMIDITY
             /\ SENSOR_HUMIDITY \in DOMAIN data
             /\ ~HumidityInside(data[SENSOR_HUMIDITY]) )
        => /\ call.result = "returned"
           /\ ent.state = call.before

\* a temperature entity that already showed a value polled 80.0 degrees and
\* kept the value
C4_Witness ==
    /\ CallReturned
    /\ call.polled
    /\ entities[call.entity].type = SENSOR_TEMPERATURE
    /\ SENSOR_TEMPERATURE \in DOMAIN data
    /\ data[SENSOR_TEMPERATURE] = 80 * Scale
    /\ call.before # None
    /\ entities[call.entity].state = call.before

\* C5 as claimed: when a read inside DHTClient.update raised, the
\* DHTSensor.update call returns normally and the entity's state is what it
\* was before the call.
C5_StateKept ==
    (CallEnded /\ ReadRaised) =>
        /\ call.result = "returned"
        /\ entities[call.entity].state = call.before

\* C5 amended: when a read inside DHTClient.update raised, the
\* DHTSensor.update call returns normally, the last-read mapping is what it
\* was before the call, and the entity's state is either what it was before
\* the call or the displayed form of the reading of its metric that the
\* mapping already held before the call.
C5_ErrorsSwallowed ==
    (CallEnded /\ ReadRaised) =>
        /\ call.result = "returned"
        /\ data = call.data_before
        /\ \/ entities[call.entity].state = call.before
           \/ Displays(entities[call.entity], call.data_before)

\* a read raised a non-RuntimeError exception in an update of an entity whose
\* state then changed to a reading polled earlier by the other entity
C5_Witness ==
    /\ CallReturned
    /\ ReadRaised
    /\ "exception: Error updating DHT sensor" \in log
    /\ entities[call.entity].state # call.before

\* C6: every handle DHTClient.update instantiates is released exactly once
\* before the call ends: no handle is released twice, at most one is open at
\* any time, and none is open between calls.
C6_HandleReleased ==
    /\ \A i \in DOMAIN handles : handles[i].exits <= 1
    /\ \A i, j \in DOMAIN handles :
          (handles[i].exits = 0 /\ handles[j].exits = 0) => i = j
    /\ pc \in {"idle", "extract"} => \A i \in DOMAIN handles : handles[i].exits = 1

\* two handles were opened and released, the latest in a poll whose read raised
C6_Witness ==
    /\ pc = "idle"
    /\ Len(handles) = 2
    /\ call.polled
    /\ ReadRaised
    /\ \A i \in DOMAIN handles : handles[i].exits = 1

\* C7: when async_setup_entry returns, its light and switch lists are the
\* static devices (when the entry holds data) followed by the discovered
\* devices (when discovery is enabled or the entry holds no data), whatever
\* the lists held before the call; a platform is forwarded exactly when its
\* list is non-empty; the domain state shows the same items where it still
\* holds the call's lists.
C7_SetupEntry ==
    (tp.op = "async_setup_entry" /\ tp.result = "True") =>
        LET has_data == tp.config_data # None
            discovers == tp.config_data = None \/ tp.config_data[1].discovery
            static_lights == IF has_data THEN tp.static_devices.lights ELSE <<>>
            static_switches == IF has_data THEN tp.static_devices.switches ELSE <<>>
            found_lights == IF discovers THEN tp.discovered_devices.lights ELSE <<>>
            found_switches == IF discovers THEN tp.discovered_devices.switches ELSE <<>>
        IN  /\ tp.lights = static_lights \o found_lights
            /\ tp.switches = static_switches \o found_switches
            /\ "light" \in tp.forwarded <=> tp.lights # <<>>
            /\ "switch" \in tp.forwarded <=> tp.switches # <<>>
            /\ tp.forwarded \subseteq {"light", "switch"}
            /\ forwarded = tp.forwarded
            /\ (tasks[tp.task].op = "idle" /\ CONF_LIGHT \in DOMAIN hass_data[1]
                  /\ hass_data[1][CONF_LIGHT].owner = tp.task)
               => hass_data[1][CONF_LIGHT].items = tp.lights
            /\ (tasks[tp.task].op = "idle" /\ CONF_SWITCH \in DOMAIN hass_data[1]
                  /\ hass_data[1][CONF_SWITCH].owner = tp.task)
               => hass_data[1][CONF_SWITCH].items = tp.switches

\* a setup started over a domain state that still listed lights, ran
\* discovery, and ended with the discovered light only and the light platform
\* forwarded, its list still being the one in the domain state
C7_Witness ==
    /\ tp.op = "async_setup_entry"
    /\ tp.result = "True"
    /\ tp.had_lights
    /\ tp.config_data # None
    /\ tp.config_data[1].discovery
    /\ tp.static_devices.lights = <<>>
    /\ tp.lights = <<"bulb2">>
    /\ forwarded = {"light"}
    /\ CONF_LIGHT \in DOMAIN hass_data[1]
    /\ hass_data[1][CONF_LIGHT] = ListOf(tp.task, <<"bulb2">>)

\* an entity's state changes only in the last step of its own update call
C8_OwnUpdateOnly ==
    \A i \in DOMAIN entities :
        (i \in DOMAIN entities' /\ entities'[i].state # entities[i].state)
        => (pc = "extract" /\ cur = i)

\* after an update, the reading the entity displays was taken at most one
\* interval before the update
C8_AtMostOneIntervalStale ==
    (CallReturned /\ shown_at[call.entity] # None)
    => call.at - shown_at[call.entity][1] <= MIN_TIME_BETWEEN_UPDATES

\* when the client's most recent poll stored an in-range reading of the
\* entity's metric, the entity displays that reading and it is at most one
\* interval old
C8_FreshAfterGoodPoll ==
    LET ent == entities[call.entity] IN
    ( /\ CallReturned
      /\ throttle # None
      /\ ent.type \in DOMAIN read_at
      /\ read_at[ent.type] = throttle[1]
      /\ IF ent.type = SENSOR_TEMPERATURE
         THEN TemperatureInside(data[SENSOR_TEMPERATURE])
         ELSE HumidityInside(data[SENSOR_HUMIDITY]) )
    => /\ shown_at[call.entity] = Some(read_at[ent.type])
       /\ call.at - read_at[ent.type] <= MIN_TIME_BETWEEN_UPDATES
       /\ Displays(ent, data)

\* C8 as claimed: a DHTSensor's state is written only by its own update call,
\* and the value it displays after an update is at most one poll interval
\* stale, for every sequence of updates, throttled calls, out-of-range
\* readings and read errors.
C8_AlwaysFresh ==
    [][C8_OwnUpdateOnly]_vars /\ []C8_AtMostOneIntervalStale

\* C8 amended: a DHTSensor's state is written only by its own update call;
\* the value it displays after an update is at most one poll interval stale
\* when the client's most recent poll stored an in-range reading of the
\* entity's metric (after a read error, a zero or missing reading, or an
\* out-of-range reading the entity keeps an older value).
C8_PullOnly ==
    [][C8_OwnUpdateOnly]_vars /\ []C8_FreshAfterGoodPoll

\* a throttled update of the second entity displayed a reading that the
\* first entity's update polled one interval earlier
C8_Witness ==
    /\ CallReturned
    /\ ~call.polled
    /\ call.entity = 2
    /\ shown_at[2] # None
    /\ call.at - shown_at[2][1] = MIN_TIME_BETWEEN_UPDATES
    /\ read_at[entities[2].type] = throttle[1]

\* C9 as claimed: an unsupported sensor kind and missing monitored conditions
\* both end setup_platform with an error logged, False returned, nothing
\* raised and no entities registered.
C9_ConfigErrorsReported ==
    (setup.result # "pending" /\ (setup.sensor = None \/ setup.conditions = <<>>))
    => /\ setup.result = "False"
       /\ "error: DHT sensor type is not supported" \in log
       /\ added = None

\* C9 amended: an unsupported sensor kind ends setup_platform with an error
\* logged and False returned, nothing raised; whenever False is returned no
\* entities are registered.  Missing monitored conditions are not reported:
\* with a supported kind and a valid pin, setup_platform logs nothing,
\* registers an empty list of entities and returns None.
C9_UnsupportedKindReported ==
    /\ (setup.result # "pending" /\ setup.sensor = None)
       => /\ setup.result = "False"
          /\ "error: DHT sensor type is not supported" \in log
          /\ added = None
    /\ setup.result = "False" => (added = None /\ entities = <<>>)
    /\ (setup.result # "pending" /\ setup.sensor # None /\ setup.pin_ok
          /\ setup.conditions = <<>>)
       => /\ setup.result = "None"
          /\ added = Some(0)
          /\ log = {}

\* an unsupported kind was configured together with a pin the board does not
\* have, and setup_platform returned False
C9_Witness ==
    /\ setup.sensor = None
    /\ ~setup.pin_ok
    /\ setup.result = "False"
    /\ added = None

\* C10: when a real poll has ended, a metric's entry is the new reading if
\* both reads completed without exception and the reading is truthy, and is
\* otherwise what it was before the poll (present or absent); humidity is read
\* first, so temperature is not read after humidity raised; no entry is
\* removed.
C10_StoreOnlyTruthy ==
    LET both_read == /\ call.h.kind \in {"value", "None"}
                     /\ call.t.kind \in {"value", "None"}
        Kept(m) == /\ (m \in DOMAIN data) <=> (m \in DOMAIN call.data_before)
                   /\ m \in DOMAIN data => data[m] = call.data_before[m]
        Stored(m, o) == IF both_read /\ o.kind = "value" /\ o.v # 0
                        THEN m \in DOMAIN data /\ data[m] = o.v
                        ELSE Kept(m)
    IN  (call.polled /\ (pc = "extract" \/ CallEnded)) =>
            /\ Stored(SENSOR_TEMPERATURE, call.t)
            /\ Stored(SENSOR_HUMIDITY, call.h)
            /\ call.h.kind \in {"RuntimeError", "Exception"} => call.t = Unread
            /\ DOMAIN call.data_before \subseteq DOMAIN data

\* a poll read a truthy humidity, then the temperature read raised, and the
\* humidity was not stored
C10_Witness ==
    /\ CallReturned
    /\ call.polled
    /\ call.h.kind = "value"
    /\ call.h.v # 0
    /\ call.t.kind = "RuntimeError"
    /\ SENSOR_HUMIDITY \notin DOMAIN data

====
